---- MODULE Spec2Model ----
(***************************************************************************)
(* The mesh node registry of planesections (builder.py): the Beam class    *)
(* with its nodes, coordinate set, label map, point loads and element      *)
(* loads, and the operations addNode, addLabel, addNodes, setFixity,       *)
(* addPointLoad and addDistLoad together with the resort-and-remap they    *)
(* trigger (_sortNodes, _resetNodeID, _remapLabels, _remapPointLoads).     *)
(*                                                                         *)
(* Conventions.  Python lists are sequences; a Python 0-based index i      *)
(* addresses element i+1 of the sequence (operator At).  Coordinates are   *)
(* small integers.  The planar beam (dimension '2D', _ndf = 3) is the one  *)
(* modelled.  Python's None label is the string None; an argument that may *)
(* be None, an integer or a list is a tagged value (NoneArg, IntArg,       *)
(* ListArg).  A node whose ID is still Python's None has ID 0.             *)
(***************************************************************************)
EXTENDS Integers, Sequences, FiniteSets

\* ------------------------------------------------------------- bounds
\* Coordinates offered to the builder calls are 1..MaxCoord.
MaxCoord == 3
\* addPointLoad and addDistLoad are offered while fewer than MaxLoads loads
\* (point loads and element loads together) exist.
MaxLoads == 1
\* addNodes is offered with batches of 0..MaxBatch coordinates.
MaxBatch == 2

\* newEulerBeam and newSimpleEulerBeam are offered with meshSize 2..MaxMesh.
MaxMesh == 3

\* In SpecLoads addPointLoad is offered while fewer than MaxPointLoads point
\* loads exist.
MaxPointLoads == 2

\* ------------------------------------------------------------- values
\* Beam._initDimensionVariables: the planar beam has three degrees of freedom.
ndf == 3

Coords == 1..MaxCoord

\* Python's None, as a label value.
None == "None"
\* The label name the calls of Spec supply; '' and None are the defaults.
Labels == {"A"}
\* The label names the calls of SpecLabels supply.
LabelNames == {"A", "B"}
\* The label arguments addNode is offered with in Spec and SpecDeferred.
NodeLabelArgs == {""} \cup Labels
\* The label arguments addNode is offered with in SpecLabels.
NodeLabelNameArgs == {"", None} \cup LabelNames

\* An argument that may be None, an integer or a list (fixity, fixities,
\* labels): a tagged value, so that "is None" and isinstance can be asked.
NoneArg == [kind |-> "None", v |-> <<>>]
IntArg(n) == [kind |-> "int", v |-> <<n>>]
ListArg(v) == [kind |-> "list", v |-> v]

\* np.zeros(self._ndf, int)
zeros == [i \in 1..ndf |-> 0]
\* The fixity vector offered to the calls: pinned.
FixityVectors == {<<1, 1, 0>>}
FixityArgs == {NoneArg} \cup {ListArg(v) : v \in FixityVectors}
\* Every fixity vector of a planar node: the eight patterns of three bits.
BitPatterns == [1..ndf -> {0, 1}]
\* Fixity arguments holding a value other than 0 and 1: a vector, an integer.
BadValueFixities == {ListArg(<<2, 0, 0>>), IntArg(2)}
\* Fixity vectors of zeros and ones whose length is not ndf.
WrongLengthFixities == {ListArg(<<1>>), ListArg(<<1, 1>>), ListArg(<<1, 1, 0, 0>>)}
\* The fixity arguments setFixity is offered with in SpecRejects.
SetFixityArgs ==
    {ListArg(zeros)} \cup {ListArg(v) : v \in FixityVectors}
        \cup BadValueFixities \cup WrongLengthFixities
\* The force vectors offered to addPointLoad and addDistLoad.
PointLoadVectors == {<<0, 10, 0>>}
\* The force vectors offered to addPointLoad in SpecLoads: a vertical load
\* and a moment.
LoadVectors == {<<0, 10, 0>>, <<0, 0, 13>>}
\* The internal forces an analysis may record on a node, left end then
\* right end: all positive, all negative, of both signs, all zero.
ForceVectors ==
    {<<1, 2, 3, 3, 2, 1>>, <<-1, -2, -3, -3, -2, -1>>,
     <<-2, 1, 0, 3, -1, 0>>, <<0, 0, 0, 0, 0, 0>>}
\* A pointLoad argument that is a number instead of a vector.
ScalarLoads == {IntArg(10)}
DistLoadVectors == {<<0, 5>>}

\* The span ends offered to newEulerBeam and newSimpleEulerBeam; 0 is the
\* default of x1.
SpanCoords == 0..MaxCoord
MeshSizes == 2..MaxMesh
\* The distributed load q offered to newSimpleEulerBeam; 0 is the default.
SpanLoads == {0, 5}

\* Python's truth value of a label: None and '' are false.
Truthy(label) == label # None /\ label # ""

\* s[i] for a Python 0-based index i.
At(s, i) == s[i + 1]

\* ------------------------------------------------------------- state
VARIABLES nodes, Nnodes, nodeCoords, nodeLabels, pointLoads, eleLoads, last

vars == <<nodes, Nnodes, nodeCoords, nodeLabels, pointLoads, eleLoads, last>>

\* The Beam object as one value, so that a method is an operator on it.
self == [nodes |-> nodes, Nnodes |-> Nnodes, nodeCoords |-> nodeCoords,
         nodeLabels |-> nodeLabels, pointLoads |-> pointLoads,
         eleLoads |-> eleLoads]

\* ------------------------------------------------------------- Node
\* Node.__init__: hasReaction is derived from the fixity given at
\* construction; Fint is None (the empty tuple) until an analysis records it.
Node(x, fixity, label) ==
    [x |-> x, fixity |-> fixity, ID |-> 0, label |-> label,
     pointLoadIDs |-> <<>>,
     hasReaction |-> \E i \in DOMAIN fixity : fixity[i] # 0,
     Fint |-> <<>>]

\* getFixityType that takes any node held vertically and free to move along
\* the beam for a roller.
getFixityType_anyRotation(node) ==
    IF node.fixity = <<0, 0, 0>> THEN "free"
    ELSE IF Len(node.fixity) = 3 /\ node.fixity[1] = 0 /\ node.fixity[2] = 1
         THEN "roller"
    ELSE IF node.fixity = <<1, 1, 0>> THEN "pinned"
    ELSE IF node.fixity = <<1, 1, 1>> THEN "fixed"
    ELSE "unsupported"

\* Node2D.getFixityType
getFixityType(node) ==
    IF node.fixity = <<0, 0, 0>> THEN "free"
    ELSE IF node.fixity = <<0, 1, 0>> THEN "roller"
    ELSE IF node.fixity = <<1, 1, 0>> THEN "pinned"
    ELSE IF node.fixity = <<1, 1, 1>> THEN "fixed"
    ELSE "unsupported"

\* Node._setID
setID(node, newID) == [node EXCEPT !.ID = newID]

\* PointLoad.__init__
PointLoad(P, x, nodeID) == [P |-> P, x |-> x, nodeID |-> nodeID]

\* EleLoad.__init__
EleLoad(x1, x2, distLoad) == [x1 |-> x1, x2 |-> x2, P |-> distLoad]

\* ------------------------------------------------------------- queries
\* Beam.getNodeIDs: a list of Nnodes entries, filled from the nodes.
getNodeIDs(b) ==
    [ii \in 1..b.Nnodes |-> IF ii <= Len(b.nodes) THEN b.nodes[ii].ID ELSE 0]

\* The 0-based indices at which sequence s holds value v, as np.where gives.
where(s, v) == {j - 1 : j \in {k \in DOMAIN s : s[k] = v}}

\* The least element of a non-empty set of integers.
Min(S) == CHOOSE m \in S : \A n \in S : m <= n

\* Beam._findNode: the first 0-based index whose node has coordinate xInput,
\* or -1 for Python's None when there is none.
findNode(b, xInput) ==
    LET hits == {ii \in 0..(Len(b.nodes) - 1) : At(b.nodes, ii).x = xInput}
    IN  IF hits = {} THEN -1 ELSE Min(hits)

\* ------------------------------------------------------------- resort
\* argsort that leaves the order as it is.
argsort_identity(xcoords) == [r \in 1..Len(xcoords) |-> r - 1]

\* argsort into descending order.
argsort_descending(xcoords) ==
    LET before(k, j) == xcoords[k] > xcoords[j] \/ (xcoords[k] = xcoords[j] /\ k < j)
        rank(j) == Cardinality({k \in DOMAIN xcoords : before(k, j)})
    IN  [r \in 1..Len(xcoords) |->
            (CHOOSE j \in DOMAIN xcoords : rank(j) = r - 1) - 1]

\* np.argsort: the 0-based indices of xcoords in ascending order of value
\* (equal values, which unique coordinates exclude, keep their order).
argsort(xcoords) ==
    LET before(k, j) == xcoords[k] < xcoords[j] \/ (xcoords[k] = xcoords[j] /\ k < j)
        rank(j) == Cardinality({k \in DOMAIN xcoords : before(k, j)})
    IN  [r \in 1..Len(xcoords) |->
            (CHOOSE j \in DOMAIN xcoords : rank(j) = r - 1) - 1]

\* _resetNodeID that leaves every ID as it is.
resetNodeID_keep(b) == b

\* Beam._resetNodeID: node ii (0-based) gets ID ii + 1.
resetNodeID(b) ==
    [b EXCEPT !.nodes =
        [k \in 1..Len(b.nodes) |-> setID(b.nodes[k], (k - 1) + 1)]]

\* Beam._remapLabels: every entry of the label map is sent through sortedInd.
remapLabels(b, sortedInd) ==
    [b EXCEPT !.nodeLabels =
        [label \in DOMAIN b.nodeLabels |-> At(sortedInd, b.nodeLabels[label])]]

\* _remapPointLoads that leaves every load's nodeID as it was.
remapPointLoads_stale(b, oldIDs, sortedInd) == b

\* Beam._remapPointLoads: each load's nodeID becomes one more than the place
\* its old node ID takes in the sorted list of old IDs.
remapPointLoads(b, oldIDs, sortedInd) ==
    LET sortedIDs == [j \in 1..Len(sortedInd) |-> At(oldIDs, sortedInd[j])]
    IN  [b EXCEPT !.pointLoads =
            [k \in 1..Len(b.pointLoads) |->
                [b.pointLoads[k] EXCEPT
                    !.nodeID = Min(where(sortedIDs, b.pointLoads[k].nodeID)) + 1]]]

\* _sortNodes that puts the coordinates in order and renumbers, and leaves
\* every other field of the nodes where it was.
sortNodes_positionsOnly(b) ==
    LET sortedInd == argsort([ii \in 1..b.Nnodes |-> b.nodes[ii].x])
    IN  [b EXCEPT !.nodes =
            [j \in 1..Len(sortedInd) |->
                [b.nodes[j] EXCEPT !.x = At(b.nodes, sortedInd[j]).x, !.ID = j]]]

\* _sortNodes that builds the sorted nodes anew from position, fixity and
\* label.
sortNodes_freshNodes(b) ==
    LET xcoords == [ii \in 1..b.Nnodes |-> b.nodes[ii].x]
        oldInd == getNodeIDs(b)
        sortedInd == argsort(xcoords)
        sortedNodes == [j \in 1..Len(sortedInd) |->
                           Node(At(b.nodes, sortedInd[j]).x,
                                At(b.nodes, sortedInd[j]).fixity,
                                At(b.nodes, sortedInd[j]).label)]
        b1 == [b EXCEPT !.nodes = sortedNodes]
        b2 == resetNodeID(b1)
        b3 == remapLabels(b2, sortedInd)
    IN  remapPointLoads(b3, oldInd, sortedInd)

\* Beam._sortNodes
sortNodes(b) ==
    LET xcoords == [ii \in 1..b.Nnodes |-> b.nodes[ii].x]
        oldInd == getNodeIDs(b)
        sortedInd == argsort(xcoords)
        sortedNodes == [j \in 1..Len(sortedInd) |-> At(b.nodes, sortedInd[j])]
        b1 == [b EXCEPT !.nodes = sortedNodes]
        b2 == resetNodeID(b1)
        b3 == remapLabels(b2, sortedInd)
    IN  remapPointLoads(b3, oldInd, sortedInd)

\* ------------------------------------------------------------- insertion
\* _addNewNode that never sorts.
addNewNode_unsorted(b, newNode, sort) ==
    [b EXCEPT !.Nnodes = b.Nnodes + 1,
              !.nodes = Append(b.nodes, setID(newNode, b.Nnodes + 1)),
              !.nodeCoords = b.nodeCoords \cup {newNode.x}]

\* _addNewNode that leaves the coordinate set as it was.
addNewNode_noCoords(b, newNode, sort) ==
    LET n == b.Nnodes + 1
        b1 == [b EXCEPT !.Nnodes = n,
                        !.nodes = Append(b.nodes, setID(newNode, n))]
    IN  IF sort THEN sortNodes(b1) ELSE b1

\* _addNewNode that numbers the new node with the count of the nodes before
\* it.
addNewNode_oldCount(b, newNode, sort) ==
    LET n == b.Nnodes + 1
        b1 == [b EXCEPT !.Nnodes = n,
                        !.nodes = Append(b.nodes, setID(newNode, b.Nnodes)),
                        !.nodeCoords = b.nodeCoords \cup {newNode.x}]
    IN  IF sort THEN sortNodes(b1) ELSE b1

\* Beam._addNewNode
addNewNode(b, newNode, sort) ==
    LET n == b.Nnodes + 1
        b1 == [b EXCEPT !.Nnodes = n,
                        !.nodes = Append(b.nodes, setID(newNode, n)),
                        !.nodeCoords = b.nodeCoords \cup {newNode.x}]
    IN  IF sort THEN sortNodes(b1) ELSE b1

\* The merge that keeps the old node's label whatever label is given.
mergedNode_oldLabel(b, index, newNode, label) ==
    [setID(newNode, At(b.nodes, index).ID) EXCEPT
        !.label = At(b.nodes, index).label]

\* The merge without taking over the old node's ID.
mergedNode_noID(b, index, newNode, label) ==
    IF label # None THEN [newNode EXCEPT !.label = label] ELSE newNode

\* The node addNode puts in place of the existing one at index: a fresh node
\* that takes over the old node's ID (and the label argument unless None).
mergedNode(b, index, newNode, label) ==
    LET nodeID == At(b.nodes, index).ID
        n1 == setID(newNode, nodeID)
    IN  IF label # None THEN [n1 EXCEPT !.label = label] ELSE n1

\* Beam.addNode: the beam after the call, the flag it returns, and the calls
\* made in order (addNode itself, and _sortNodes when _addNewNode sorts).
addNode(b, x, fixity, label, sort) ==
    LET fix == IF fixity.kind = "None" THEN zeros ELSE fixity.v
        newNode == Node(x, fix, label)
    IN  IF x \in b.nodeCoords
        THEN LET index == findNode(b, x)
             IN  [b |-> [b EXCEPT !.nodes[index + 1] =
                                     mergedNode(b, index, newNode, label)],
                  flag |-> 0, calls |-> <<"addNode">>]
        ELSE [b |-> addNewNode(b, newNode, sort), flag |-> 1,
              calls |-> IF sort THEN <<"addNode", "_sortNodes">>
                        ELSE <<"addNode">>]

\* Beam.addLabel
addLabel(b, x, label, sort) ==
    LET newNode == Node(x, zeros, label)
    IN  IF x \in b.nodeCoords
        THEN LET index == findNode(b, x)
             IN  [b |-> [b EXCEPT !.nodes[index + 1].label = label], flag |-> 0]
        ELSE [b |-> addNewNode(b, newNode, sort), flag |-> 1]

\* The loop of addNodes with each addNode left to sort.
RECURSIVE addNodesLoop_sortEach(_, _, _, _, _)
addNodesLoop_sortEach(b, xCoords, fixities, labels, ii) ==
    IF ii >= Len(xCoords) THEN [b |-> b, raised |-> FALSE, calls |-> <<>>]
    ELSE IF ii >= Len(fixities) \/ ii >= Len(labels)
         THEN [b |-> b, raised |-> TRUE, calls |-> <<>>]
    ELSE LET r == addNode(b, At(xCoords, ii), ListArg(At(fixities, ii)),
                          At(labels, ii), TRUE)
             rest == addNodesLoop_sortEach(r.b, xCoords, fixities, labels, ii + 1)
         IN  [rest EXCEPT !.calls = r.calls \o @]

\* The loop of Beam.addNodes from element ii on: addNode without sorting for
\* each coordinate; indexing past the end of fixities or labels raises.  The
\* calls made are collected in order.
RECURSIVE addNodesLoop(_, _, _, _, _)
RECURSIVE addNodesRest(_, _, _, _, _)
addNodesLoop(b, xCoords, fixities, labels, ii) ==
    IF ii >= Len(xCoords) THEN [b |-> b, raised |-> FALSE, calls |-> <<>>]
    ELSE IF ii >= Len(fixities) \/ ii >= Len(labels)
         THEN [b |-> b, raised |-> TRUE, calls |-> <<>>]
    ELSE addNodesRest(addNode(b, At(xCoords, ii), ListArg(At(fixities, ii)),
                              At(labels, ii), FALSE),
                      xCoords, fixities, labels, ii)

\* The elements of the batch after element ii, r being what addNode returned
\* for element ii.
addNodesRest(r, xCoords, fixities, labels, ii) ==
    [addNodesLoop(r.b, xCoords, fixities, labels, ii + 1) EXCEPT
        !.calls = r.calls \o @]

\* addNodes without the sort that follows the loop.
addNodes_noFinalSort(b, xCoords, fixities, labels) ==
    LET newNoads == Len(xCoords)
        fs == IF fixities.kind = "None" THEN [i \in 1..newNoads |-> zeros]
              ELSE fixities.v
        ls == IF labels.kind = "None" THEN [i \in 1..newNoads |-> None]
              ELSE labels.v
    IN  addNodesLoop(b, xCoords, fs, ls, 0)

\* Beam.addNodes: defaults for absent fixities and labels, the loop, one sort.
addNodes(b, xCoords, fixities, labels) ==
    LET newNoads == Len(xCoords)
        fs == IF fixities.kind = "None" THEN [i \in 1..newNoads |-> zeros]
              ELSE fixities.v
        ls == IF labels.kind = "None" THEN [i \in 1..newNoads |-> None]
              ELSE labels.v
        r == addNodesLoop(b, xCoords, fs, ls, 0)
    IN  IF r.raised THEN r
        ELSE [b |-> sortNodes(r.b), raised |-> FALSE,
              calls |-> Append(r.calls, "_sortNodes")]

\* ------------------------------------------------------------- results
\* Python's min and max of two numbers.
min(a, b) == IF b < a THEN b ELSE a
max(a, b) == IF b > a THEN b ELSE a

\* The loop of Beam.Fmax over nodes ns from sequence place ii on, Fmin and
\* Fmax being the values reached so far.
RECURSIVE FmaxLoop(_, _, _, _, _)
FmaxLoop(ns, index, ii, Fmin, Fmax) ==
    IF ii > Len(ns) THEN <<Fmin, Fmax>>
    ELSE LET F1 == At(ns[ii].Fint, index)
             F2 == At(ns[ii].Fint, index + ndf)
             Fmin1 == IF F1 < Fmin \/ F2 < Fmin THEN min(F1, F2) ELSE Fmin
             Fmax1 == IF Fmax < F1 \/ Fmax < F2 THEN max(F1, F2) ELSE Fmax
         IN  FmaxLoop(ns, index, ii + 1, Fmin1, Fmax1)

\* Fmax that starts from the forces of the first node instead of zero.
Fmax_firstNode(b, index) ==
    IF Len(b.nodes) = 0 THEN <<0, 0>>
    ELSE LET F1 == At(b.nodes[1].Fint, index)
             F2 == At(b.nodes[1].Fint, index + ndf)
         IN  FmaxLoop(b.nodes, index, 2, min(F1, F2), max(F1, F2))

\* Beam.Fmax: the pair (Fmin, Fmax), both seeded at zero.
Fmax(b, index) == FmaxLoop(b.nodes, index, 1, 0, 0)

\* ------------------------------------------------------------- fixity
\* Beam._convertFixityInput
convertFixityInput(fixity) ==
    IF fixity.kind = "int" THEN ListArg([i \in 1..ndf |-> fixity.v[1]]) ELSE fixity

\* _checkfixityInput without the test of the values.
checkfixityInput_lengthOnly(fixity) ==
    IF Len(fixity.v) = 2 \/ Len(fixity.v) > ndf THEN 2 ELSE 0

\* Beam._checkfixityInput: 0 when it returns, 1 when it raises the ValueError
\* about zeros and ones, 2 when it raises the ValueError about the length.
checkfixityInput(fixity) ==
    IF ~({fixity.v[i] : i \in DOMAIN fixity.v} \subseteq {0, 1}) THEN 1
    ELSE IF Len(fixity.v) = 2 \/ Len(fixity.v) > ndf THEN 2
    ELSE 0

\* setFixity that assigns the label argument whatever it is.
setFixity_labelAlways(b, x, fixity, label) ==
    LET f == convertFixityInput(fixity)
        error == checkfixityInput(f)
    IN  IF error # 0 THEN [b |-> b, raised |-> TRUE, error |-> error]
        ELSE IF x \in b.nodeCoords
        THEN LET index == findNode(b, x)
                 n1 == [At(b.nodes, index) EXCEPT !.fixity = f.v,
                                                  !.hasReaction = TRUE,
                                                  !.label = label]
             IN  [b |-> [b EXCEPT !.nodes[index + 1] = n1],
                  raised |-> FALSE, error |-> 0]
        ELSE [b |-> addNode(b, x, f, label, TRUE).b,
              raised |-> FALSE, error |-> 0]

\* Beam.setFixity: the beam after the call, whether it raised, and which of
\* the two errors of _checkfixityInput it raised.
setFixity(b, x, fixity, label) ==
    LET f == convertFixityInput(fixity)
        error == checkfixityInput(f)
    IN  IF error # 0 THEN [b |-> b, raised |-> TRUE, error |-> error]
        ELSE IF x \in b.nodeCoords
        THEN LET index == findNode(b, x)
                 n1 == [At(b.nodes, index) EXCEPT !.fixity = f.v,
                                                  !.hasReaction = TRUE]
                 n2 == IF Truthy(label) THEN [n1 EXCEPT !.label = label] ELSE n1
             IN  [b |-> [b EXCEPT !.nodes[index + 1] = n2],
                  raised |-> FALSE, error |-> 0]
        ELSE [b |-> addNode(b, x, f, label, TRUE).b,
              raised |-> FALSE, error |-> 0]

\* ------------------------------------------------------------- loads
\* addPointLoad that numbers the load with the count of the loads before it.
addPointLoad_reusedID(b, x, pointLoad, label) ==
    LET loadID == Len(b.pointLoads)
        b1 == IF x \in b.nodeCoords THEN b
              ELSE addNode(b, x, NoneArg, "", TRUE).b
        nodeIndex == findNode(b1, x)
        n1 == [At(b1.nodes, nodeIndex) EXCEPT
                  !.pointLoadIDs = Append(@, loadID)]
        n2 == IF Truthy(label) THEN [n1 EXCEPT !.label = label] ELSE n1
        nodeID == nodeIndex + 1
        newLoad == PointLoad(pointLoad.v, x, nodeID)
    IN  IF pointLoad.kind # "list" THEN [b |-> b, raised |-> TRUE]
        ELSE [b |-> [b1 EXCEPT !.nodes[nodeIndex + 1] = n2,
                               !.pointLoads = Append(b1.pointLoads, newLoad)],
              raised |-> FALSE]

\* addPointLoad that adds the missing node before it looks at the load.
addPointLoad_lateCheck(b, x, pointLoad, label) ==
    LET loadID == Len(b.pointLoads) + 1
        b1 == IF x \in b.nodeCoords THEN b
              ELSE addNode(b, x, NoneArg, "", TRUE).b
        nodeIndex == findNode(b1, x)
        n1 == [At(b1.nodes, nodeIndex) EXCEPT
                  !.pointLoadIDs = Append(@, loadID)]
        n2 == IF Truthy(label) THEN [n1 EXCEPT !.label = label] ELSE n1
        nodeID == nodeIndex + 1
        newLoad == PointLoad(pointLoad.v, x, nodeID)
    IN  IF pointLoad.kind # "list" THEN [b |-> b1, raised |-> TRUE]
        ELSE [b |-> [b1 EXCEPT !.nodes[nodeIndex + 1] = n2,
                               !.pointLoads = Append(b1.pointLoads, newLoad)],
              raised |-> FALSE]

\* Beam.addPointLoad: a pointLoad without __iter__ (a number) raises before
\* anything else is done.
addPointLoad(b, x, pointLoad, label) ==
    LET loadID == Len(b.pointLoads) + 1
        b1 == IF x \in b.nodeCoords THEN b
              ELSE addNode(b, x, NoneArg, "", TRUE).b
        nodeIndex == findNode(b1, x)
        n1 == [At(b1.nodes, nodeIndex) EXCEPT
                  !.pointLoadIDs = Append(@, loadID)]
        n2 == IF Truthy(label) THEN [n1 EXCEPT !.label = label] ELSE n1
        nodeID == nodeIndex + 1
        newLoad == PointLoad(pointLoad.v, x, nodeID)
    IN  IF pointLoad.kind # "list" THEN [b |-> b, raised |-> TRUE]
        ELSE [b |-> [b1 EXCEPT !.nodes[nodeIndex + 1] = n2,
                               !.pointLoads = Append(b1.pointLoads, newLoad)],
              raised |-> FALSE]

\* addDistLoad that anchors the start of the span only.
addDistLoad_startOnly(b, x1, x2, distLoad) ==
    LET defaultFixity == ListArg(zeros)
        b1 == IF x1 \notin b.nodeCoords
              THEN addNode(b, x1, defaultFixity, "", TRUE).b ELSE b
    IN  [b1 EXCEPT !.eleLoads = Append(b1.eleLoads, EleLoad(x1, x2, distLoad))]

\* Beam.addDistLoad
addDistLoad(b, x1, x2, distLoad) ==
    LET defaultFixity == ListArg(zeros)
        b1 == IF x1 \notin b.nodeCoords
              THEN addNode(b, x1, defaultFixity, "", TRUE).b ELSE b
        b2 == IF x2 \notin b1.nodeCoords
              THEN addNode(b1, x2, defaultFixity, "", TRUE).b ELSE b1
    IN  [b2 EXCEPT !.eleLoads = Append(b2.eleLoads, EleLoad(x1, x2, distLoad))]

\* ------------------------------------------------------------- constructors
\* Beam._initArrays followed by self.eleLoads = []: the beam before any node.
initArrays ==
    [nodes |-> <<>>, Nnodes |-> 0, nodeCoords |-> {}, nodeLabels |-> <<>>,
     pointLoads |-> <<>>, eleLoads |-> <<>>]

\* EulerBeam._initFixities: no fixities means all free for every node; the
\* result is <<>> with raised set when the count is not that of the nodes.
initFixities(fixities, NnewNodes) ==
    IF Len(fixities) = 0
    THEN [fixities |-> [i \in 1..NnewNodes |-> zeros], raised |-> FALSE]
    ELSE IF Len(fixities) # NnewNodes THEN [fixities |-> <<>>, raised |-> TRUE]
    ELSE [fixities |-> fixities, raised |-> FALSE]

\* EulerBeam.__init__ (empty lists stand for the absent fixities and labels):
\* beams holds the beam constructed, and is empty when the constructor raised.
EulerBeam(xcoords, fixities, labels) ==
    LET NnewNodes == Len(xcoords)
        f == initFixities(fixities, NnewNodes)
        ls == IF Len(labels) = 0 THEN [i \in 1..NnewNodes |-> None] ELSE labels
        r == IF Len(xcoords) # 0
             THEN addNodes(initArrays, xcoords, ListArg(f.fixities), ListArg(ls))
             ELSE [b |-> initArrays, raised |-> FALSE]
    IN  IF f.raised \/ r.raised THEN [beams |-> <<>>, raised |-> TRUE]
        ELSE [beams |-> <<r.b>>, raised |-> FALSE]

\* np.linspace(x1, x2, meshSize) where the meshSize - 1 steps are whole.
linspace(x1, x2, meshSize) ==
    [i \in 1..meshSize |-> x1 + ((i - 1) * (x2 - x1)) \div (meshSize - 1)]

\* newEulerBeam that lets a span of length zero through.
newEulerBeam_strict(x2, x1, meshSize) ==
    IF x2 < x1 THEN [beams |-> <<>>, raised |-> TRUE]
    ELSE EulerBeam(linspace(x1, x2, meshSize), <<>>, <<>>)

\* newEulerBeam
newEulerBeam(x2, x1, meshSize) ==
    IF x2 <= x1 THEN [beams |-> <<>>, raised |-> TRUE]
    ELSE EulerBeam(linspace(x1, x2, meshSize), <<>>, <<>>)

\* Beam.addDistLoadVertical on the planar beam.
addDistLoadVertical(b, x1, x2, qy) == addDistLoad(b, x1, x2, <<0, qy>>)

\* newSimpleEulerBeam
newSimpleEulerBeam(x2, x1, meshSize, q) ==
    IF x2 <= x1 THEN [beams |-> <<>>, raised |-> TRUE]
    ELSE LET beam == EulerBeam(linspace(x1, x2, meshSize), <<>>, <<>>).beams[1]
             b1 == addNode(beam, x1, ListArg(<<1, 1, 0>>), "", TRUE).b
             b2 == addNode(b1, x2, ListArg(<<0, 1, 0>>), "", TRUE).b
             b3 == IF q # 0 THEN addDistLoadVertical(b2, x1, x2, q) ELSE b2
         IN  [beams |-> <<b3>>, raised |-> FALSE]

\* ------------------------------------------------------------- calls
\* Strictly ascending by position.
Sorted(ns) == \A i \in 1..(Len(ns) - 1) : ns[i].x < ns[i + 1].x

\* All sequences over S of length at most n.
SeqsUpTo(S, n) == UNION {[1..k -> S] : k \in 0..n}

\* The beam's fields take the values of beam value b.
Becomes(b) ==
    /\ nodes' = b.nodes
    /\ Nnodes' = b.Nnodes
    /\ nodeCoords' = b.nodeCoords
    /\ nodeLabels' = b.nodeLabels
    /\ pointLoads' = b.pointLoads
    /\ eleLoads' = b.eleLoads

\* EulerBeam.__init__ with no coordinates: _initArrays and an empty eleLoads.
\* last names the latest call and, for addNode and addLabel, what it returned.
Init ==
    /\ nodes = <<>>
    /\ Nnodes = 0
    /\ nodeCoords = {}
    /\ nodeLabels = <<>>
    /\ pointLoads = <<>>
    /\ eleLoads = <<>>
    /\ last = [op |-> "init", flag |-> 0]

\* beam.addNode(x, fixity, label), sort left at its default True.
AddNode(x, fixity, label) ==
    LET r == addNode(self, x, fixity, label, TRUE)
    IN  /\ Becomes(r.b)
        /\ last' = [op |-> "addNode", flag |-> r.flag]

\* beam.addNode(x, fixity, label, sort=False)
AddNodeNoSort(x, fixity, label) ==
    LET r == addNode(self, x, fixity, label, FALSE)
    IN  /\ Becomes(r.b)
        /\ last' = [op |-> "addNode(sort=False)", flag |-> r.flag]

\* beam.addLabel(x, label)
AddLabel(x, label) ==
    LET r == addLabel(self, x, label, TRUE)
    IN  /\ Becomes(r.b)
        /\ last' = [op |-> "addLabel", flag |-> r.flag]

\* beam.addNodes(xCoords, fixities, labels) with a fixity and a label for
\* every coordinate, or None for either list.
AddNodes(xCoords, fixities, labels) ==
    LET r == addNodes(self, xCoords, fixities, labels)
    IN  /\ fixities.kind = "list" => Len(fixities.v) = Len(xCoords)
        /\ labels.kind = "list" => Len(labels.v) = Len(xCoords)
        /\ Becomes(r.b)
        /\ last' = [op |-> "addNodes", flag |-> 0]

\* beam.addNodes(xCoords, fixities, labels) raising IndexError in its loop.
AddNodesRaises(xCoords, fixities, labels) ==
    LET r == addNodes(self, xCoords, fixities, labels)
    IN  /\ r.raised
        /\ Becomes(r.b)
        /\ last' = [op |-> "addNodes raised", flag |-> 0]

\* beam.setFixity(x, fixity, label) with a valid fixity.
SetFixity(x, fixity, label) ==
    LET r == setFixity(self, x, fixity, label)
    IN  /\ ~r.raised
        /\ Becomes(r.b)
        /\ last' = [op |-> "setFixity", flag |-> 0]

\* beam.setFixity(x, fixity, label) raising; the flag of last is the error.
SetFixityRaises(x, fixity, label) ==
    LET r == setFixity(self, x, fixity, label)
    IN  /\ r.raised
        /\ Becomes(r.b)
        /\ last' = [op |-> "setFixity raised", flag |-> r.error]

\* beam.addPointLoad(x, pointLoad, label) with a list for pointLoad.
AddPointLoad(x, pointLoad, label) ==
    LET r == addPointLoad(self, x, pointLoad, label)
    IN  /\ ~r.raised
        /\ Becomes(r.b)
        /\ last' = [op |-> "addPointLoad", flag |-> 0]

\* beam.addPointLoad(x, pointLoad, label) raising.
AddPointLoadRaises(x, pointLoad, label) ==
    LET r == addPointLoad(self, x, pointLoad, label)
    IN  /\ r.raised
        /\ Becomes(r.b)
        /\ last' = [op |-> "addPointLoad raised", flag |-> 0]

\* beam.addDistLoad(x1, x2, distLoad)
AddDistLoad(x1, x2, distLoad) ==
    /\ Becomes(addDistLoad(self, x1, x2, distLoad))
    /\ last' = [op |-> "addDistLoad", flag |-> 0]

\* Another load, of either kind, is offered while fewer than MaxLoads exist.
RoomForLoad == Len(pointLoads) + Len(eleLoads) < MaxLoads

\* The fixities and labels lists offered to addNodes with n coordinates:
\* None (the default), or the same vector or label for every coordinate.
BatchFixities(n) == {NoneArg} \cup {ListArg([i \in 1..n |-> v]) : v \in FixityVectors}
BatchLabels(n) == {NoneArg} \cup {ListArg([i \in 1..n |-> l]) : l \in Labels}
BatchLabelNames(n) ==
    {NoneArg} \cup {ListArg([i \in 1..n |-> l]) : l \in LabelNames}

\* The builder calls with sorting left on.
Next ==
    \/ \E x \in Coords, fixity \in FixityArgs, label \in NodeLabelArgs :
          AddNode(x, fixity, label)
    \/ \E x \in Coords, label \in Labels : AddLabel(x, label)
    \/ \E xCoords \in SeqsUpTo(Coords, MaxBatch) :
          \E fixities \in BatchFixities(Len(xCoords)),
             labels \in BatchLabels(Len(xCoords)) :
             AddNodes(xCoords, fixities, labels)
    \/ \E x \in Coords, v \in FixityVectors, label \in {None} \cup Labels :
          SetFixity(x, ListArg(v), label)
    \/ \E x \in Coords, P \in PointLoadVectors, label \in {""} \cup Labels :
          RoomForLoad /\ AddPointLoad(x, ListArg(P), label)
    \/ \E x1 \in Coords, x2 \in Coords, q \in DistLoadVectors :
          RoomForLoad /\ x1 < x2 /\ AddDistLoad(x1, x2, q)

Spec == Init /\ [][Next]_vars

\* The builder calls, with addNode(sort=False) among them.
NextDeferred ==
    \/ Next
    \/ \E x \in Coords, fixity \in FixityArgs, label \in NodeLabelArgs :
          AddNodeNoSort(x, fixity, label)

SpecDeferred == Init /\ [][NextDeferred]_vars

\* The calls that create and label nodes (addNode, addLabel, addNodes), with
\* two label names on offer.
NextLabels ==
    \/ \E x \in Coords, label \in NodeLabelNameArgs :
          AddNode(x, NoneArg, label)
    \/ \E x \in Coords, label \in LabelNames : AddLabel(x, label)
    \/ \E xCoords \in SeqsUpTo(Coords, MaxBatch) :
          \E labels \in BatchLabelNames(Len(xCoords)) :
             AddNodes(xCoords, NoneArg, labels)

SpecLabels == Init /\ [][NextLabels]_vars

\* beam._sortNodes(), as the analysis calls it before it runs.  The flag of
\* last tells whether the nodes were in ascending order when it was called.
SortNodes ==
    /\ Becomes(sortNodes(self))
    /\ last' = [op |-> "sortNodes", flag |-> IF Sorted(nodes) THEN 1 ELSE 0]

\* Unlabelled free nodes added with and without sorting, point loads, and
\* the resort.
NextResort ==
    \/ \E x \in Coords : AddNode(x, NoneArg, "")
    \/ \E x \in Coords : AddNodeNoSort(x, NoneArg, "")
    \/ \E x \in Coords, P \in PointLoadVectors :
          RoomForLoad /\ AddPointLoad(x, ListArg(P), "")
    \/ SortNodes

SpecResort == Init /\ [][NextResort]_vars

\* Nodes, point loads and setFixity, offered with valid and invalid
\* arguments: all-free and pinned fixities, values other than 0 and 1,
\* vectors of other lengths, point loads that are numbers.
NextRejects ==
    \/ \E x \in Coords, label \in NodeLabelArgs : AddNode(x, NoneArg, label)
    \/ \E x \in Coords, fixity \in SetFixityArgs, label \in {None, ""} \cup Labels :
          SetFixity(x, fixity, label)
    \/ \E x \in Coords, fixity \in SetFixityArgs, label \in {None, ""} \cup Labels :
          SetFixityRaises(x, fixity, label)
    \/ \E x \in Coords, P \in PointLoadVectors :
          RoomForLoad /\ AddPointLoad(x, ListArg(P), "")
    \/ \E x \in Coords, P \in ScalarLoads, label \in {""} \cup Labels :
          AddPointLoadRaises(x, P, label)

SpecRejects == Init /\ [][NextRejects]_vars

\* beam = newEulerBeam(x2, x1, meshSize): the beam held is the new one.
NewEulerBeam(x2, x1, meshSize) ==
    LET r == newEulerBeam(x2, x1, meshSize)
    IN  /\ ~r.raised
        /\ Becomes(r.beams[1])
        /\ last' = [op |-> "newEulerBeam", flag |-> 0]

\* beam = newEulerBeam(x2, x1, meshSize) raising: nothing is assigned.
NewEulerBeamRaises(x2, x1, meshSize) ==
    LET r == newEulerBeam(x2, x1, meshSize)
    IN  /\ r.raised
        /\ r.beams = <<>>
        /\ Becomes(self)
        /\ last' = [op |-> "newEulerBeam raised", flag |-> 0]

\* beam = newSimpleEulerBeam(x2, x1, meshSize, q)
NewSimpleEulerBeam(x2, x1, meshSize, q) ==
    LET r == newSimpleEulerBeam(x2, x1, meshSize, q)
    IN  /\ ~r.raised
        /\ Becomes(r.beams[1])
        /\ last' = [op |-> "newSimpleEulerBeam", flag |-> 0]

\* beam = newSimpleEulerBeam(x2, x1, meshSize, q) raising.
NewSimpleEulerBeamRaises(x2, x1, meshSize, q) ==
    LET r == newSimpleEulerBeam(x2, x1, meshSize, q)
    IN  /\ r.raised
        /\ r.beams = <<>>
        /\ Becomes(self)
        /\ last' = [op |-> "newSimpleEulerBeam raised", flag |-> 0]

\* The mesh of meshSize points between x1 and x2 falls on whole coordinates.
WholeMesh(x2, x1, meshSize) == x2 > x1 => (x2 - x1) % (meshSize - 1) = 0

\* The span constructors, and labelled nodes and point loads on the beam
\* they return.
NextSpan ==
    \/ \E x2 \in SpanCoords, x1 \in SpanCoords, meshSize \in MeshSizes :
          WholeMesh(x2, x1, meshSize) /\ NewEulerBeam(x2, x1, meshSize)
    \/ \E x2 \in SpanCoords, x1 \in SpanCoords, meshSize \in MeshSizes :
          NewEulerBeamRaises(x2, x1, meshSize)
    \/ \E x2 \in SpanCoords, x1 \in SpanCoords, meshSize \in MeshSizes, q \in SpanLoads :
          WholeMesh(x2, x1, meshSize) /\ NewSimpleEulerBeam(x2, x1, meshSize, q)
    \/ \E x2 \in SpanCoords, x1 \in SpanCoords, meshSize \in MeshSizes, q \in SpanLoads :
          NewSimpleEulerBeamRaises(x2, x1, meshSize, q)
    \/ \E x \in Coords, label \in Labels : AddNode(x, NoneArg, label)
    \/ \E x \in Coords, P \in PointLoadVectors :
          RoomForLoad /\ AddPointLoad(x, ListArg(P), "")

SpecSpan == Init /\ [][NextSpan]_vars

\* The fixities and labels lists that are shorter than a batch of n
\* coordinates.
ShortFixities(n) ==
    {ListArg([i \in 1..k |-> v]) : k \in 0..(n - 1), v \in FixityVectors}
ShortLabels(n) ==
    {ListArg([i \in 1..k |-> l]) : k \in 0..(n - 1), l \in Labels}

\* addNode and addNodes, the batches offered with lists of the right length
\* and with lists that are too short.
NextBatch ==
    \/ \E x \in Coords : AddNode(x, NoneArg, "")
    \/ \E xCoords \in SeqsUpTo(Coords, MaxBatch) :
          \E fixities \in BatchFixities(Len(xCoords)),
             labels \in BatchLabels(Len(xCoords)) :
             AddNodes(xCoords, fixities, labels)
    \/ \E xCoords \in SeqsUpTo(Coords, MaxBatch) :
          \E fixities \in ShortFixities(Len(xCoords)) :
             AddNodesRaises(xCoords, fixities, NoneArg)
    \/ \E xCoords \in SeqsUpTo(Coords, MaxBatch) :
          \E labels \in ShortLabels(Len(xCoords)) :
             AddNodesRaises(xCoords, NoneArg, labels)

SpecBatch == Init /\ [][NextBatch]_vars

\* Free unlabelled nodes added with and without sorting, the resort, and up
\* to MaxPointLoads point loads, several of them at one coordinate.
NextLoads ==
    \/ \E x \in Coords : AddNode(x, NoneArg, "")
    \/ \E x \in Coords : AddNodeNoSort(x, NoneArg, "")
    \/ \E x \in Coords, P \in LoadVectors, label \in {""} \cup Labels :
          Len(pointLoads) < MaxPointLoads /\ AddPointLoad(x, ListArg(P), label)
    \/ SortNodes

SpecLoads == Init /\ [][NextLoads]_vars

\* The analysis writes the internal forces of every node (node.Fint).
RecordInternalForces(F) ==
    /\ nodes' = [i \in DOMAIN nodes |-> [nodes[i] EXCEPT !.Fint = F[i]]]
    /\ UNCHANGED <<Nnodes, nodeCoords, nodeLabels, pointLoads, eleLoads>>
    /\ last' = [op |-> "analysis", flag |-> 0]

\* Every node has internal forces recorded.
Analysed == \A i \in DOMAIN nodes : nodes[i].Fint # <<>>

\* beam.Fmax(index) on an analysed beam; last holds the pair returned.
CallFmax(index) ==
    /\ Analysed
    /\ UNCHANGED <<nodes, Nnodes, nodeCoords, nodeLabels, pointLoads, eleLoads>>
    /\ last' = [op |-> "Fmax", flag |-> index, result |-> Fmax(self, index)]

\* Free unlabelled nodes, the analysis writing their internal forces, and
\* Fmax for each of the force components.
NextForces ==
    \/ \E x \in Coords : AddNode(x, NoneArg, "")
    \/ \E F \in [DOMAIN nodes -> ForceVectors] : RecordInternalForces(F)
    \/ \E index \in 0..(ndf - 1) : CallFmax(index)

SpecForces == Init /\ [][NextForces]_vars

\* beam.nodes[index].getFixityType() for the node at x; last holds x and the
\* name returned.
GetFixityType(x) ==
    /\ x \in nodeCoords
    /\ UNCHANGED <<nodes, Nnodes, nodeCoords, nodeLabels, pointLoads, eleLoads>>
    /\ last' = [op |-> "getFixityType", flag |-> x,
                result |-> getFixityType(At(nodes, findNode(self, x)))]

\* Nodes given each of the eight fixity patterns by addNode and setFixity,
\* and their fixity type asked for.
NextFixityTypes ==
    \/ \E x \in Coords, v \in BitPatterns : AddNode(x, ListArg(v), "")
    \/ \E x \in Coords, v \in BitPatterns : SetFixity(x, ListArg(v), None)
    \/ \E x \in Coords : GetFixityType(x)

SpecFixityTypes == Init /\ [][NextFixityTypes]_vars

\* The label map is filled as it is meant to be held: every label carried
\* by a node is sent to the 0-based sequence index of the first such node.
RegisterLabels ==
    /\ nodeLabels' =
          [label \in {nodes[i].label : i \in {k \in DOMAIN nodes : Truthy(nodes[k].label)}} |->
              Min({i - 1 : i \in {k \in DOMAIN nodes : nodes[k].label = label}})]
    /\ UNCHANGED <<nodes, Nnodes, nodeCoords, pointLoads, eleLoads>>
    /\ last' = [op |-> "registerLabels", flag |-> 0]

\* Labelled nodes appended without sorting, the label map filled from them,
\* and the resort.
NextRemap ==
    \/ \E x \in Coords, label \in LabelNames : AddNodeNoSort(x, NoneArg, label)
    \/ RegisterLabels
    \/ SortNodes

SpecRemap == Init /\ [][NextRemap]_vars

\* ------------------------------------------------------------- properties
\* The node of sequence ns at coordinate c (the first, as _findNode finds it).
NodeAt(ns, c) == ns[CHOOSE i \in DOMAIN ns : ns[i].x = c /\
                                   \A j \in 1..(i - 1) : ns[j].x # c]

\* The node at 0-based index i has identifier i + 1.
Numbered(ns) == \A i \in 0..(Len(ns) - 1) : At(ns, i).ID = i + 1

\* This step is a call addNode(x, fixity, label), sorting or not.
AddNodeCall(x, fixity, label) ==
    \/ last'.op = "addNode" /\ AddNode(x, fixity, label)
    \/ last'.op = "addNode(sort=False)" /\ AddNodeNoSort(x, fixity, label)

\* The coordinates of a node sequence, in sequence order.
Positions(ns) == [i \in DOMAIN ns |-> ns[i].x]

\* The identifiers of a node sequence, in sequence order.
Identifiers(ns) == [i \in DOMAIN ns |-> ns[i].ID]

\* The elements of a sequence.
Range(s) == {s[i] : i \in DOMAIN s}

\* C1: after any sequence of addNode, addLabel, setFixity, addPointLoad,
\* addDistLoad (sort left at True) and addNodes calls, the node sequence is
\* strictly ascending by position and the node at index i has identifier i+1.
SortInvariant == Sorted(nodes) /\ Numbered(nodes)

\* addNode has just created one of three nodes while the rightmost node
\* already carried a point load: the new node was appended after it and the
\* resort moved it to its left.
SortInvariantWitness ==
    /\ last.op = "addNode" /\ last.flag = 1
    /\ Len(nodes) = 3
    /\ pointLoads # <<>> /\ pointLoads[1].x = 3

\* C2: in every state reachable by addNode (sorting or not), addNodes,
\* addLabel, setFixity, addPointLoad and addDistLoad calls, every point load
\* created at coordinate c has the nodeID of the node whose position is c,
\* which is an identifier in 1..N.
LoadRemapInvariant ==
    \A k \in DOMAIN pointLoads :
        /\ pointLoads[k].nodeID \in 1..Len(nodes)
        /\ pointLoads[k].x \in nodeCoords
        /\ \A i \in DOMAIN nodes :
              nodes[i].x = pointLoads[k].x => nodes[i].ID = pointLoads[k].nodeID

\* A sorting addNode has just created the second node while the other one, at
\* coordinate 2, already carried the load: the load's nodeID went from 1 to 2.
LoadRemapWitness ==
    /\ last.op = "addNode" /\ last.flag = 1
    /\ Len(nodes) = 2
    /\ pointLoads # <<>> /\ pointLoads[1].x = 2 /\ pointLoads[1].nodeID = 2

\* C3: addNode at a coordinate already present returns 0 and leaves Nnodes,
\* nodeCoords and the identifier of the node at that coordinate unchanged;
\* at an absent coordinate it returns 1 and Nnodes grows by exactly one.
AddNodeReturn ==
    [][\A x \in Coords, fixity \in FixityArgs, label \in NodeLabelArgs :
          AddNodeCall(x, fixity, label) =>
              IF x \in nodeCoords
              THEN /\ last'.flag = 0
                   /\ Nnodes' = Nnodes
                   /\ nodeCoords' = nodeCoords
                   /\ NodeAt(nodes', x).ID = NodeAt(nodes, x).ID
              ELSE /\ last'.flag = 1
                   /\ Nnodes' = Nnodes + 1]_vars

\* addNode has just merged into one of two existing nodes and returned 0.
AddNodeReturnWitness ==
    /\ last.op = "addNode" /\ last.flag = 0
    /\ Nnodes = 2 /\ Len(nodes) = 2


\* C4: addNode at an existing coordinate preserves that node's pointLoadIDs:
\* every point-load identifier attached to the node before the merge is still
\* attached to the node at that coordinate after it.
MergeKeepsLoads ==
    [][\A x \in nodeCoords, fixity \in FixityArgs, label \in NodeLabelArgs :
          AddNodeCall(x, fixity, label) =>
              Range(NodeAt(nodes, x).pointLoadIDs)
                  \subseteq Range(NodeAt(nodes', x).pointLoadIDs)]_vars

\* C5: each addNode at a new coordinate that carries a label leaves the node
\* sequence in ascending coordinate order with the new label on the node at
\* the new coordinate and every earlier label on the node at its own
\* coordinate, so the labels read in sequence order are the supplied labels
\* ordered by coordinate.
LabelsFollowCoords ==
    [][\A x \in Coords \ nodeCoords, label \in LabelNames :
          AddNode(x, NoneArg, label) =>
              /\ Sorted(nodes')
              /\ NodeAt(nodes', x).label = label
              /\ \A c \in nodeCoords :
                    NodeAt(nodes', c).label = NodeAt(nodes, c).label]_vars

\* addNode has just created the third node and the labels B, A, B are read
\* in the order of the coordinates of their nodes.
LabelsFollowCoordsWitness ==
    /\ last.op = "addNode" /\ last.flag = 1
    /\ Len(nodes) = 3
    /\ nodes[1].label = "B" /\ nodes[2].label = "A" /\ nodes[3].label = "B"

\* C6: addNode at an existing coordinate with a non-empty label replaces that
\* node's label with the new one; the node keeps its place and identifier and
\* the label of every other node is unchanged.
MergeOverwritesLabel ==
    [][\A x \in nodeCoords, label \in LabelNames :
          AddNodeCall(x, NoneArg, label) =>
              /\ NodeAt(nodes', x).label = label
              /\ Positions(nodes') = Positions(nodes)
              /\ Identifiers(nodes') = Identifiers(nodes)
              /\ \A c \in nodeCoords \ {x} :
                    NodeAt(nodes', c).label = NodeAt(nodes, c).label]_vars

\* addNode has just merged into the first of two nodes; the labels now differ.
MergeOverwritesLabelWitness ==
    /\ last.op = "addNode" /\ last.flag = 0
    /\ Len(nodes) = 2
    /\ nodes[1].label = "B" /\ nodes[2].label = "A"

\* C7: addNode at an existing coordinate with an empty or absent label ('' or
\* None) leaves the prior label of the existing node, when it has one, intact.
MergeKeepsLabel ==
    [][\A x \in nodeCoords, label \in {"", None} :
          AddNodeCall(x, NoneArg, label) /\ Truthy(NodeAt(nodes, x).label) =>
              NodeAt(nodes', x).label = NodeAt(nodes, x).label]_vars

\* C8: addNode at an existing coordinate with no fixity argument leaves the
\* existing node's fixity and hasReaction unchanged.
MergeKeepsFixity ==
    [][\A x \in nodeCoords, label \in NodeLabelArgs :
          AddNodeCall(x, NoneArg, label) =>
              /\ NodeAt(nodes', x).fixity = NodeAt(nodes, x).fixity
              /\ NodeAt(nodes', x).hasReaction = NodeAt(nodes, x).hasReaction]_vars

LabelMapInvariant ==
    \A i \in 0..(Len(nodes) - 1) :
        Truthy(At(nodes, i).label) =>
            /\ At(nodes, i).label \in DOMAIN nodeLabels
            /\ nodeLabels[At(nodes, i).label] = i

\* C11: in every reachable state no two nodes share a position, nodeCoords is
\* exactly the set of positions of the nodes, and Nnodes is the number of nodes.
CoordsMirrorNodes ==
    /\ \A i, j \in DOMAIN nodes : i # j => nodes[i].x # nodes[j].x
    /\ nodeCoords = {nodes[i].x : i \in DOMAIN nodes}
    /\ Nnodes = Len(nodes)

\* addNode has just merged into one of three nodes that earlier unsorted
\* inserts left out of order.
CoordsMirrorNodesWitness ==
    /\ last.op = "addNode" /\ last.flag = 0
    /\ Len(nodes) = 3 /\ Nnodes = 3 /\ nodeCoords = {1, 2, 3}
    /\ ~Sorted(nodes)

\* beam.addNode(xCoords[ii], fixities[ii], labels[ii], sort=True) for every
\* element from ii on, one call after the other; absent fixities or labels
\* are passed on as None.
RECURSIVE addNodeEach(_, _, _, _, _)
addNodeEach(b, xCoords, fixities, labels, ii) ==
    IF ii >= Len(xCoords) THEN b
    ELSE addNodeEach(
            addNode(b, At(xCoords, ii),
                    IF fixities.kind = "None" THEN NoneArg
                    ELSE ListArg(At(fixities.v, ii)),
                    IF labels.kind = "None" THEN None ELSE At(labels.v, ii),
                    TRUE).b,
            xCoords, fixities, labels, ii + 1)

\* C12: from a sorted registry, addNodes(xs, fixities, labels) ends in the
\* same state (nodes with all their fields, coordinate set, count, point
\* loads) as addNode(x_i, fixity_i, label_i, sort=True) called element by
\* element in the same order, repeated and existing coordinates included.
DeferredSortEquivalent ==
    Sorted(nodes) =>
        \A xCoords \in SeqsUpTo(Coords, MaxBatch) :
           \A fixities \in BatchFixities(Len(xCoords)),
              labels \in BatchLabels(Len(xCoords)) :
              addNodes(self, xCoords, fixities, labels).b =
                  addNodeEach(self, xCoords, fixities, labels, 0)

\* addNodes has just returned with unlabelled free nodes at 1 and 2 in
\* front of the node at 3 that carries the point load.
DeferredSortEquivalentWitness ==
    /\ last.op = "addNodes"
    /\ Len(nodes) = 3 /\ Len(pointLoads) = 1
    /\ nodes[1].label = None /\ nodes[2].label = None
    /\ nodes[3].pointLoadIDs = <<1>>
    /\ pointLoads[1].nodeID = 3

\* C13: _sortNodes applied to a registry whose nodes are already in ascending
\* order changes nothing (node order, identifiers, label map, every point
\* load's nodeID), and applying it again to its own result changes nothing.
ResortIdempotent ==
    [][last'.op = "sortNodes" =>
         /\ Sorted(nodes) => self' = self
         /\ sortNodes(self') = self']_vars

\* _sortNodes has just run on three nodes that were already in order, the
\* point load sitting on the second.
ResortIdempotentWitness ==
    /\ last = [op |-> "sortNodes", flag |-> 1]
    /\ Len(nodes) = 3 /\ Len(pointLoads) = 1
    /\ pointLoads[1].nodeID = 2

\* C14: in every reachable state, every node has hasReaction true exactly
\* when some entry of its fixity vector is restrained (1).
ReactionFollowsFixity ==
    \A i \in DOMAIN nodes :
        nodes[i].hasReaction <=>
            \E k \in DOMAIN nodes[i].fixity : nodes[i].fixity[k] = 1

\* C15: setFixity(x, fixity, label) on an existing node leaves the identifier
\* and pointLoadIDs of the node and Nnodes as they were and, when label is
\* None or '' and the node has a non-empty label, leaves that label too.
SetFixityKeepsLabel ==
    \A x \in nodeCoords, fixity \in SetFixityArgs, label \in {None, ""} \cup Labels :
        LET r == setFixity(self, x, fixity, label)
            old == NodeAt(nodes, x)
            new == NodeAt(r.b.nodes, x)
        IN  ~r.raised =>
                /\ new.ID = old.ID
                /\ new.pointLoadIDs = old.pointLoadIDs
                /\ r.b.Nnodes = Nnodes
                /\ ~Truthy(label) /\ Truthy(old.label) => new.label = old.label

\* setFixity has just returned and the node that carries the label A and the
\* point load has a fixity only setFixity on an existing node leaves behind.
SetFixityKeepsLabelWitness ==
    /\ last.op = "setFixity"
    /\ \E i \in DOMAIN nodes :
          /\ nodes[i].label = "A"
          /\ nodes[i].pointLoadIDs = <<1>>
          /\ nodes[i].fixity = zeros /\ nodes[i].hasReaction

\* C16: setFixity with a fixity holding a value other than 0 and 1, as a
\* vector or as an integer, raises the error about zeros and ones and leaves
\* the beam as it was.
BadValueRejected ==
    \A x \in Coords, fixity \in BadValueFixities, label \in {None, ""} \cup Labels :
        setFixity(self, x, fixity, label) =
            [b |-> self, raised |-> TRUE, error |-> 1]

\* setFixity has just raised the error about zeros and ones on a beam with
\* a labelled, restrained node.
BadValueRejectedWitness ==
    /\ last = [op |-> "setFixity raised", flag |-> 1]
    /\ \E i \in DOMAIN nodes : nodes[i].label = "A" /\ nodes[i].fixity = <<1, 1, 0>>

\* C17: setFixity with a fixity vector whose length is not ndf raises and
\* leaves the beam as it was.
WrongLengthRejected ==
    \A x \in Coords, fixity \in WrongLengthFixities, label \in {None, ""} \cup Labels :
        LET r == setFixity(self, x, fixity, label)
        IN  r.raised /\ r.b = self

\* C18: addPointLoad with a pointLoad that is not iterable raises and leaves
\* nodes, nodeCoords, Nnodes and pointLoads as they were, whether x is a node
\* or not.
ScalarLoadRejected ==
    \A x \in Coords, P \in ScalarLoads, label \in {""} \cup Labels :
        addPointLoad(self, x, P, label) = [b |-> self, raised |-> TRUE]

\* addPointLoad has just raised on a beam that has a node with a point load
\* and lacks a node at one of the coordinates.
ScalarLoadRejectedWitness ==
    /\ last.op = "addPointLoad raised"
    /\ Len(pointLoads) = 1
    /\ nodeCoords # {} /\ nodeCoords # Coords

\* C19: newEulerBeam and newSimpleEulerBeam called with x2 <= x1 raise and
\* produce no beam and no node: the call never returns a beam, and the beam
\* held before the call is as it was.
DegenerateSpanRejected ==
    [][\A x2 \in SpanCoords, x1 \in SpanCoords, meshSize \in MeshSizes :
          x2 <= x1 =>
              /\ ~NewEulerBeam(x2, x1, meshSize)
              /\ \A q \in SpanLoads : ~NewSimpleEulerBeam(x2, x1, meshSize, q)
              /\ newEulerBeam(x2, x1, meshSize).beams = <<>>
              /\ \A q \in SpanLoads :
                    newSimpleEulerBeam(x2, x1, meshSize, q).beams = <<>>
              /\ last'.op \in {"newEulerBeam raised", "newSimpleEulerBeam raised"}
                    => self' = self]_vars

\* A span constructor has just raised and there is no node.
DegenerateSpanRejectedWitness ==
    /\ last.op \in {"newEulerBeam raised", "newSimpleEulerBeam raised"}
    /\ nodes = <<>> /\ Nnodes = 0

\* C20: an addNodes call that raises partway through the batch leaves the
\* nodes with their identifiers, nodeCoords and Nnodes as before the call,
\* and the nodes still in ascending order.
AbortedBatchLeavesRegistry ==
    [][last'.op = "addNodes raised" =>
         /\ nodes' = nodes
         /\ nodeCoords' = nodeCoords
         /\ Nnodes' = Nnodes
         /\ Sorted(nodes')]_vars

\* The pointLoadIDs of the node at coordinate c, and none when there is no
\* such node.
LoadIDsAt(ns, c) ==
    IF \E i \in DOMAIN ns : ns[i].x = c THEN NodeAt(ns, c).pointLoadIDs ELSE <<>>

\* The point loads without their node references.
Forces(ls) == [k \in DOMAIN ls |-> [P |-> ls[k].P, x |-> ls[k].x]]

LoadOverwritesOld ==
    \A i, j \in DOMAIN pointLoads :
        i # j => pointLoads[i].x # pointLoads[j].x

\* A node with its identifier left out.
Unnumbered(node) == [node EXCEPT !.ID = 0]

LabelsUnique ==
    \A i, j \in DOMAIN nodes :
        i # j /\ Truthy(nodes[i].label) => nodes[i].label # nodes[j].label

\* The force values of component index at the left and right end of every
\* node of ns.
ForceValues(ns, index) ==
    UNION {{At(ns[i].Fint, index), At(ns[i].Fint, index + ndf)} : i \in DOMAIN ns}

\* The greatest element of a non-empty set of integers.
Max(S) == CHOOSE m \in S : \A n \in S : m >= n

\* C25: Fmax(index) returns (Fmin, Fmax) with Fmin the minimum of 0 and all
\* left and right force values of the component and Fmax the maximum of 0
\* and all of them, so Fmin <= 0 <= Fmax, and (0, 0) when there is no node.
FmaxClampsToZero ==
    Analysed =>
        \A index \in 0..(ndf - 1) :
            LET r == Fmax(self, index)
                values == {0} \cup ForceValues(nodes, index)
            IN  /\ r = <<Min(values), Max(values)>>
                /\ r[1] <= 0 /\ 0 <= r[2]
                /\ nodes = <<>> => r = <<0, 0>>

\* Fmax has just returned (0, 3) for the axial force of two nodes whose
\* forces are all positive.
FmaxClampsToZeroWitness ==
    /\ last = [op |-> "Fmax", flag |-> 0, result |-> <<0, 3>>]
    /\ Len(nodes) = 2
    /\ \A i \in DOMAIN nodes : nodes[i].Fint = <<1, 2, 3, 3, 2, 1>>

\* C26: the fixity type of a planar node follows from the exact pattern of
\* its fixity: [0,0,0] is free, [0,1,0] roller, [1,1,0] pinned, [1,1,1]
\* fixed, and each of the four other patterns is unsupported.
FixityTypeByPattern ==
    \A i \in DOMAIN nodes :
        LET f == nodes[i].fixity
            t == getFixityType(nodes[i])
        IN  /\ t = "free" <=> f = <<0, 0, 0>>
            /\ t = "roller" <=> f = <<0, 1, 0>>
            /\ t = "pinned" <=> f = <<1, 1, 0>>
            /\ t = "fixed" <=> f = <<1, 1, 1>>
            /\ t = "unsupported" <=>
                   f \in {<<1, 0, 0>>, <<0, 0, 1>>, <<1, 0, 1>>, <<0, 1, 1>>}

\* getFixityType has just returned unsupported for the node at 2, which is
\* held vertically and in rotation.
FixityTypeByPatternWitness ==
    /\ last = [op |-> "getFixityType", flag |-> 2, result |-> "unsupported"]
    /\ NodeAt(nodes, 2).fixity = <<0, 1, 1>>

\* C27: a returning addNodes call makes one addNode call per element of the
\* batch and then exactly one _sortNodes call, after the last element and
\* none in between, whichever coordinates of the batch are new.
BatchSortsOnce ==
    \A xCoords \in SeqsUpTo(Coords, MaxBatch) :
       \A fixities \in BatchFixities(Len(xCoords)),
          labels \in BatchLabels(Len(xCoords)) :
          addNodes(self, xCoords, fixities, labels).calls =
              Append([i \in 1..Len(xCoords) |-> "addNode"], "_sortNodes")

\* addNodes has just returned with pinned nodes labelled A at 1 and 3 around
\* the free node at 2.
BatchSortsOnceWitness ==
    /\ last.op = "addNodes"
    /\ Len(nodes) = 3
    /\ nodes[1].label = "A" /\ nodes[3].label = "A"
    /\ nodes[1].fixity = <<1, 1, 0>> /\ nodes[3].fixity = <<1, 1, 0>>
    /\ nodes[2] = [Node(2, zeros, "") EXCEPT !.ID = 2]

\* C28: addNode creating a node (sort left on) strictly between two nodes of
\* a sorted registry leaves the identifier of every node to its left as it
\* was and adds one to the identifier of every node to its right; a point
\* load to the right of the new node has its nodeID increased by one and a
\* point load to the left keeps its nodeID.
InsertShiftsRight ==
    [][last'.op = "addNode" /\ last'.flag = 1 /\ Sorted(nodes) =>
         \A x \in Coords \ nodeCoords :
            /\ AddNode(x, NoneArg, "")
            /\ \E l \in nodeCoords, r \in nodeCoords : l < x /\ x < r
            => /\ \A c \in nodeCoords :
                     NodeAt(nodes', c).ID =
                         NodeAt(nodes, c).ID + (IF c > x THEN 1 ELSE 0)
               /\ \A k \in DOMAIN pointLoads :
                     pointLoads'[k].nodeID =
                         pointLoads[k].nodeID + (IF pointLoads[k].x > x THEN 1 ELSE 0)]_vars

\* addNode has just created the node at 2 between the node at 1, which
\* carries load 1, and the node at 3, which carries load 2 and is now node 3.
InsertShiftsRightWitness ==
    /\ last = [op |-> "addNode", flag |-> 1]
    /\ Len(nodes) = 3 /\ Len(pointLoads) = 2
    /\ nodes[1].pointLoadIDs = <<1>> /\ nodes[3].pointLoadIDs = <<2>>
    /\ pointLoads[1].nodeID = 1 /\ pointLoads[2].nodeID = 3

\* C29: a resort sends each label of the label map from the index its node
\* had before the sort to the index at which that node sits after it,
\* whatever the permutation.
LabelMapFollowsNodes ==
    [][last'.op = "sortNodes" =>
         /\ DOMAIN nodeLabels' = DOMAIN nodeLabels
         /\ \A label \in DOMAIN nodeLabels :
               At(nodes', nodeLabels'[label]).x = At(nodes, nodeLabels[label]).x]_vars

\* C30: _sortNodes only permutes and renumbers: the nodes after it are the
\* nodes before it, none lost and none twice, each with its position,
\* fixity, label, hasReaction and pointLoadIDs; nodeCoords and Nnodes are
\* unchanged; every point load keeps its force vector and its coordinate and
\* the label map keeps its labels.
SortOnlyPermutes ==
    [][last'.op = "sortNodes" =>
         /\ Len(nodes') = Len(nodes)
         /\ {Unnumbered(nodes'[i]) : i \in DOMAIN nodes'} =
               {Unnumbered(nodes[i]) : i \in DOMAIN nodes}
         /\ nodeCoords' = nodeCoords
         /\ Nnodes' = Nnodes
         /\ Forces(pointLoads') = Forces(pointLoads)
         /\ eleLoads' = eleLoads
         /\ DOMAIN nodeLabels' = DOMAIN nodeLabels]_vars

\* _sortNodes has just put three nodes in order that were not: the node
\* labelled A at 3 still carries load 1 and the node at 1 load 2.
SortOnlyPermutesWitness ==
    /\ last = [op |-> "sortNodes", flag |-> 0]
    /\ Len(nodes) = 3 /\ Len(pointLoads) = 2
    /\ nodes[3].label = "A" /\ nodes[3].pointLoadIDs = <<1>>
    /\ nodes[1].pointLoadIDs = <<2>>
    /\ pointLoads[1].nodeID = 3 /\ pointLoads[2].nodeID = 1

\* C31: in every reachable state, the unsorted ones between
\* addNode(sort=False) inserts included, the node at 0-based index i has
\* identifier i + 1, so the identifiers are distinct and exactly 1..Nnodes;
\* and the nodeID that addPointLoad has just stored is the identifier of the
\* node at the load's coordinate, the node that carries the new load's number.
IdentifierIsIndex ==
    /\ Numbered(nodes)
    /\ Len(nodes) = Nnodes
    /\ Range(getNodeIDs(self)) = 1..Nnodes
    /\ last.op = "addPointLoad" =>
          LET newLoad == pointLoads[Len(pointLoads)]
              anchor == NodeAt(nodes, newLoad.x)
          IN  /\ newLoad.x \in nodeCoords
              /\ anchor.ID = newLoad.nodeID
              /\ Len(pointLoads) \in Range(anchor.pointLoadIDs)

\* addPointLoad has just stored a load on the second node of two that
\* addNode(sort=False) left out of order.
IdentifierIsIndexWitness ==
    /\ last.op = "addPointLoad"
    /\ Len(nodes) = 2 /\ nodes[2].x < nodes[1].x
    /\ Len(pointLoads) = 1
    /\ pointLoads[1].nodeID = 2 /\ pointLoads[1].x = nodes[2].x
    /\ nodes[2].ID = 2 /\ nodes[2].pointLoadIDs = <<1>>

====
